---------------------------- MODULE Spec2Model ----------------------------
(***************************************************************************)
(* Build and packaging glue of astarte-device-sdk-cpp.                     *)
(*                                                                         *)
(*  - scripts/build_for_tidy_conan.py : the tidy-build helper, one run of  *)
(*    the process from its entry (command line, or a direct call of        *)
(*    build_for_tidy_with_conan) to its exit.  Specification: Spec.        *)
(*  - end_to_end/conanfile.py : the package recipe, from the declared      *)
(*    class attributes through config_options and requirements.            *)
(*    Specification: SpecRecipe.                                           *)
(***************************************************************************)
EXTENDS Integers, Sequences, FiniteSets, TLC

VARIABLES
    entry,        \* "cli": started as a script; "call": build_for_tidy_with_conan called
    argv,         \* the arguments given (sys.argv[1:], or the two call arguments)
    dirs,         \* the paths that os.path.isdir answers True for
    pc,           \* position of the helper run
    lib_src_dir,  \* parameter of build_for_tidy_with_conan, Unbound before the call
    transport,    \* parameter of build_for_tidy_with_conan, Unbound before the call
    stdout,       \* lines printed to the output stream
    stderr,       \* lines printed to the error stream
    status,       \* exit status of the process (meaningful once pc = "done")
    started,      \* argument lists of the subprocesses started, in order
    returned,     \* return codes of the subprocesses that finished, in order
    evaluated,    \* validation checks of build_for_tidy_with_conan evaluated, in order
    rpc,          \* position of the recipe
    settings,     \* recipe: self.settings
    options,      \* recipe: self.options
    requires      \* recipe: requirements declared, in order

hvars == <<entry, argv, dirs, pc, lib_src_dir, transport, stdout, stderr,
           status, started, returned, evaluated>>
rvars == <<rpc, settings, options, requires>>
vars  == <<hvars, rvars>>

----------------------------------------------------------------------------
(* Bounds and input domains *)

MaxArgs == 3     \* longest command line tried
MaxRc   == 2     \* return codes tried are -MaxRc .. MaxRc (negative: killed by a signal)

Strings  == {"", "lib", "grpc", "mqtt", "http"}
Paths    == Strings \ {""}
RetCodes == (0 - MaxRc) .. MaxRc
NoValue  == "<None>"       \* Python's None
Unbound  == "<unbound>"    \* a parameter of a function not called yet

\* Command lines: words that argparse reads as positionals (none starts with '-')
ArgvSet  == UNION {[1..n -> Strings] : n \in 0..MaxArgs}
\* Arguments of a direct call
CallArgs == [1..2 -> Strings \cup {NoValue}]

----------------------------------------------------------------------------
(* Pure helpers *)

\* ' '.join(command)
RECURSIVE Join(_)
Join(command) ==
    IF Len(command) = 0 THEN ""
    ELSE IF Len(command) = 1 THEN command[1]
    ELSE command[1] \o " " \o Join(Tail(command))

\* "not v" for a string or None
Falsy(v) == v = "" \/ v = NoValue

\* os.path.isdir(p): the empty path is never a directory
IsDir(p) == p # "" /\ p \in dirs

\* choices of the transport argument, the list of the transport check
TransportChoices == {"grpc", "mqtt"}

ProfileDetectCmd == <<"conan", "profile", "detect", "--exist-ok">>

\* Variant: the transport option is a fixed literal
ConanLibBuildCmdFixedTransport(dir, tr) ==
    << "conan",
       "build",
       dir,
       "--output-folder=build",
       "--build=missing",
       "--options=&:transport=grpc",
       "--settings=build_type=Debug",
       "--settings=compiler.cppstd=20",
       "--settings:build=compiler.cppstd=20",
       "--conf=tools.cmake.cmaketoolchain:extra_variables={'CMAKE_EXPORT_COMPILE_COMMANDS': 'ON'}" >>

ConanLibBuildCmd(dir, tr) ==
    << "conan",
       "build",
       dir,
       "--output-folder=build",
       "--build=missing",
       "--options=&:transport=" \o tr,
       "--settings=build_type=Debug",
       "--settings=compiler.cppstd=20",
       "--settings:build=compiler.cppstd=20",
       "--conf=tools.cmake.cmaketoolchain:extra_variables={'CMAKE_EXPORT_COMPILE_COMMANDS': 'ON'}" >>

MsgNotProvided   == "Library source directory not provided."
MsgNoSuchDir(d)  == "Library source directory does not exist: " \o d
MsgBadTransport  == "Transport should one of: 'grpc' or 'mqtt'."
MsgProfileFailed == "Conan profile detection failed."
MsgBuildFailed   == "Failed to build library."
MsgCommandFailed(command) == "Command failed: " \o Join(command)

OutDetecting == "Detecting Conan profile..."
OutBuilding  == "Building library to generate compilation database..."
OutComplete  == "Conan build process complete."

\* what argparse and the interpreter write; their exact text is not the script's
ArgparseUsageError == "usage: build_for_tidy_conan.py: error"
Traceback          == "Traceback (most recent call last)"

----------------------------------------------------------------------------
(* The recipe stays as declared while the helper runs, and conversely *)

DeclaredOptions ==
    [o \in {"shared", "fPIC"} |->
        [choices |-> {TRUE, FALSE}, default |-> (o = "fPIC")]]

RecipeIdle ==
    /\ rpc = "idle"
    /\ settings = [os |-> "Linux", compiler |-> "gcc", build_type |-> "Debug", arch |-> "x86_64"]
    /\ options = DeclaredOptions
    /\ requires = <<>>

HelperIdle ==
    /\ entry = "call" /\ argv = <<>> /\ dirs = {} /\ pc = "idle"
    /\ lib_src_dir = Unbound /\ transport = Unbound
    /\ stdout = <<>> /\ stderr = <<>> /\ status = 0
    /\ started = <<>> /\ returned = <<>> /\ evaluated = <<>>

----------------------------------------------------------------------------
(* scripts/build_for_tidy_conan.py *)

Init ==
    /\ entry \in {"cli", "call"}
    /\ dirs \in SUBSET Paths
    /\ argv \in (IF entry = "cli" THEN ArgvSet ELSE CallArgs)
    /\ pc = (IF entry = "cli" THEN "main" ELSE "check_provided")
    /\ lib_src_dir = (IF entry = "cli" THEN Unbound ELSE argv[1])
    /\ transport = (IF entry = "cli" THEN Unbound ELSE argv[2])
    /\ stdout = <<>> /\ stderr = <<>> /\ status = 0
    /\ started = <<>> /\ returned = <<>> /\ evaluated = <<>>
    /\ RecipeIdle

\* Variant: the message is printed but the exit status is left at 0
ErrorExitStatus0(message) ==
    /\ stderr' = Append(stderr, "Error: " \o message)
    /\ status' = 0
    /\ pc' = "done"

\* error_exit(message): print to stderr, sys.exit(1)
ErrorExit(message) ==
    /\ stderr' = Append(stderr, "Error: " \o message)
    /\ status' = 1
    /\ pc' = "done"

\* parser.parse_args(): two positionals, the second restricted to the choices;
\* anything else is argparse's usage error, which exits with status 2
ParseArgs ==
    /\ pc = "main"
    /\ IF Len(argv) = 2 /\ argv[2] \in TransportChoices
       THEN /\ lib_src_dir' = argv[1]
            /\ transport' = argv[2]
            /\ pc' = "check_provided"
            /\ UNCHANGED <<stderr, status>>
       ELSE /\ stderr' = Append(stderr, ArgparseUsageError)
            /\ status' = 2
            /\ pc' = "done"
            /\ UNCHANGED <<lib_src_dir, transport>>
    /\ UNCHANGED <<entry, argv, dirs, stdout, started, returned, evaluated, rvars>>

\* Variant: the message is printed without leaving the function
CheckProvidedNoExit ==
    /\ pc = "check_provided"
    /\ evaluated' = Append(evaluated, "provided")
    /\ stderr' = IF Falsy(lib_src_dir)
                 THEN Append(stderr, "Error: " \o MsgNotProvided) ELSE stderr
    /\ pc' = "check_isdir"
    /\ UNCHANGED <<entry, argv, dirs, lib_src_dir, transport, stdout, status,
                   started, returned, rvars>>

\* if not lib_src_dir: error_exit(...)
CheckProvided ==
    /\ pc = "check_provided"
    /\ evaluated' = Append(evaluated, "provided")
    /\ IF Falsy(lib_src_dir)
       THEN ErrorExit(MsgNotProvided)
       ELSE pc' = "check_isdir" /\ UNCHANGED <<stderr, status>>
    /\ UNCHANGED <<entry, argv, dirs, lib_src_dir, transport, stdout, started, returned, rvars>>

\* Variant: the directory check is missing
CheckIsDirSkipped ==
    /\ pc = "check_isdir"
    /\ pc' = "check_transport"
    /\ UNCHANGED <<entry, argv, dirs, lib_src_dir, transport, stdout, stderr, status,
                   started, returned, evaluated, rvars>>

\* if not os.path.isdir(lib_src_dir): error_exit(...)
CheckIsDir ==
    /\ pc = "check_isdir"
    /\ evaluated' = Append(evaluated, "isdir")
    /\ IF ~IsDir(lib_src_dir)
       THEN ErrorExit(MsgNoSuchDir(lib_src_dir))
       ELSE pc' = "check_transport" /\ UNCHANGED <<stderr, status>>
    /\ UNCHANGED <<entry, argv, dirs, lib_src_dir, transport, stdout, started, returned, rvars>>

\* if transport not in ["grpc", "mqtt"]: error_exit(...)
CheckTransport ==
    /\ pc = "check_transport"
    /\ evaluated' = Append(evaluated, "transport")
    /\ IF transport \notin TransportChoices
       THEN ErrorExit(MsgBadTransport)
       ELSE pc' = "detect_profile" /\ UNCHANGED <<stderr, status>>
    /\ UNCHANGED <<entry, argv, dirs, lib_src_dir, transport, stdout, started, returned, rvars>>

\* run_command, first half: subprocess.run starts the command; when the program
\* cannot be launched the OSError is not caught and the interpreter ends the
\* process with a traceback and status 1
RunCommandStart(command, announce, waiting) ==
    /\ stdout' = Append(stdout, announce)
    /\ \/ /\ started' = Append(started, command)
          /\ pc' = waiting
          /\ UNCHANGED <<stderr, status>>
       \/ /\ stderr' = Append(stderr, Traceback)
          /\ status' = 1
          /\ pc' = "done"
          /\ UNCHANGED started
    /\ UNCHANGED <<entry, argv, dirs, lib_src_dir, transport, returned, evaluated, rvars>>

\* Variant: subprocess.run without check=True, the return code is ignored
RunCommandReturnUnchecked(command, error_message, next) ==
    /\ \E rc \in RetCodes : returned' = Append(returned, rc)
    /\ pc' = next
    /\ UNCHANGED <<entry, argv, dirs, lib_src_dir, transport, stdout, stderr, status,
                   started, evaluated, rvars>>

\* Variant: a failed command is run again
RunCommandReturnRetry(command, error_message, next) ==
    /\ \E rc \in RetCodes :
        /\ returned' = Append(returned, rc)
        /\ pc' = IF rc = 0 THEN next
                 ELSE IF next = "build" THEN "detect_profile" ELSE "build"
    /\ UNCHANGED <<entry, argv, dirs, lib_src_dir, transport, stdout, stderr, status,
                   started, evaluated, rvars>>

\* run_command, second half: the command returns; check=True raises
\* CalledProcessError for every non-zero return code
RunCommandReturn(command, error_message, next) ==
    /\ \E rc \in RetCodes :
        /\ returned' = Append(returned, rc)
        /\ IF rc # 0
           THEN IF ~Falsy(error_message)
                THEN ErrorExit(error_message)
                ELSE ErrorExit(MsgCommandFailed(command))
           ELSE pc' = next /\ UNCHANGED <<stderr, status>>
    /\ UNCHANGED <<entry, argv, dirs, lib_src_dir, transport, stdout, started, evaluated, rvars>>

DetectProfileStart ==
    /\ pc = "detect_profile"
    /\ RunCommandStart(ProfileDetectCmd, OutDetecting, "detect_wait")

\* Variant: run_command called without its error_message
DetectProfileReturnNoMessage ==
    /\ pc = "detect_wait"
    /\ \E rc \in RetCodes :
        /\ returned' = Append(returned, rc)
        /\ IF rc # 0
           THEN ErrorExit(MsgCommandFailed(ProfileDetectCmd))
           ELSE pc' = "build" /\ UNCHANGED <<stderr, status>>
    /\ UNCHANGED <<entry, argv, dirs, lib_src_dir, transport, stdout, started, evaluated, rvars>>

DetectProfileReturn ==
    /\ pc = "detect_wait"
    /\ RunCommandReturn(ProfileDetectCmd, MsgProfileFailed, "build")

BuildStart ==
    /\ pc = "build"
    /\ RunCommandStart(ConanLibBuildCmd(lib_src_dir, transport), OutBuilding, "build_wait")

BuildReturn ==
    /\ pc = "build_wait"
    /\ RunCommandReturn(ConanLibBuildCmd(lib_src_dir, transport), MsgBuildFailed, "complete")

\* Variant: the script ends through error_exit
CompleteWithError ==
    /\ pc = "complete"
    /\ stdout' = Append(stdout, OutComplete)
    /\ ErrorExit(MsgBuildFailed)
    /\ UNCHANGED <<entry, argv, dirs, lib_src_dir, transport,
                   started, returned, evaluated, rvars>>

\* print("Conan build process complete."), then the script ends
Complete ==
    /\ pc = "complete"
    /\ stdout' = Append(stdout, OutComplete)
    /\ pc' = "done"
    /\ UNCHANGED <<entry, argv, dirs, lib_src_dir, transport, stderr, status,
                   started, returned, evaluated, rvars>>

Next ==
    \/ ParseArgs
    \/ CheckProvided
    \/ CheckIsDir
    \/ CheckTransport
    \/ DetectProfileStart
    \/ DetectProfileReturn
    \/ BuildStart
    \/ BuildReturn
    \/ Complete

Spec == Init /\ [][Next]_vars

----------------------------------------------------------------------------
(* end_to_end/conanfile.py *)

OsSet        == {"Windows", "Linux", "Macos", "FreeBSD", "Android"}
CompilerSet  == {"gcc", "clang", "msvc", "apple-clang"}
BuildTypeSet == {"Debug", "Release"}
ArchSet      == {"x86_64", "x86", "armv8"}

Requirements ==
    <<"cpr/1.12.0", "nlohmann_json/3.12.0", "tomlplusplus/3.4.0", "astarte-device-sdk/0.7.0">>

\* del self.options.<name>
DelOption(opts, name) == [o \in (DOMAIN opts) \ {name} |-> opts[o]]

InitRecipe ==
    /\ rpc = "declared"
    /\ settings \in [os : OsSet, compiler : CompilerSet, build_type : BuildTypeSet, arch : ArchSet]
    /\ options = DeclaredOptions
    /\ requires = <<>>
    /\ HelperIdle

\* Variant: the os name is compared in the wrong case
ConfigOptionsWrongCase ==
    /\ rpc = "declared"
    /\ options' = IF settings.os = "windows" THEN DelOption(options, "fPIC") ELSE options
    /\ rpc' = "configured"
    /\ UNCHANGED <<settings, requires, hvars>>

ConfigOptions ==
    /\ rpc = "declared"
    /\ options' = IF settings.os = "Windows" THEN DelOption(options, "fPIC") ELSE options
    /\ rpc' = "configured"
    /\ UNCHANGED <<settings, requires, hvars>>

RequirementsStep ==
    /\ rpc = "configured"
    /\ requires' = requires \o Requirements
    /\ rpc' = "required"
    /\ UNCHANGED <<settings, options, hvars>>

NextRecipe ==
    \/ ConfigOptions
    \/ RequirementsStep

SpecRecipe == InitRecipe /\ [][NextRecipe]_vars

----------------------------------------------------------------------------
(* Properties *)

StartsWith(s, prefix) ==
    Len(s) >= Len(prefix) /\ SubSeq(s, 1, Len(prefix)) = prefix

Printed(line, stream) == \E i \in 1..Len(stream) : stream[i] = line

IsProfileDetect(command) == command = <<"conan", "profile", "detect", "--exist-ok">>
IsBuild(command) == Len(command) >= 2 /\ command[1] = "conan" /\ command[2] = "build"

\* build_for_tidy_with_conan has been entered with the two arguments given
Entered == Len(argv) = 2 /\ (entry = "call" \/ lib_src_dir # Unbound)

\* C1: a run whose lib_src_dir is not an existing directory (transport grpc or
\* mqtt, or any transport on a direct call) never gets past the directory
\* check, starts no subprocess at any point, and ends with exactly one error
\* line on the error stream and exit status 1.
C1_MissingDirExitsBeforeSubprocess ==
    (Len(argv) = 2 /\ argv[1] \notin dirs /\ (argv[2] \in {"grpc", "mqtt"} \/ entry = "call"))
    => /\ started = <<>>
       /\ returned = <<>>
       /\ pc \in {"main", "check_provided", "check_isdir", "done"}
       /\ pc = "done" => /\ status = 1
                         /\ Len(stderr) = 1
                         /\ StartsWith(stderr[1], "Error: ")

C1_Witness ==
    /\ pc = "done" /\ entry = "cli"
    /\ argv = <<"lib", "mqtt">> /\ "lib" \notin dirs
    /\ status = 1 /\ stderr = <<"Error: Library source directory does not exist: lib">>

\* C2: every run with two arguments whose transport is neither "grpc" nor
\* "mqtt" ends with exit status exactly 1 and an error printed, from the
\* command line as well as from a direct call.
C2_BadTransportExits1 ==
    (pc = "done" /\ Len(argv) = 2 /\ argv[2] \notin {"grpc", "mqtt"})
    => status = 1 /\ stderr # <<>>

\* C3: whenever a build command is started, the only subprocess started before
\* it is the profile detection, and that one has returned zero; so after a
\* non-zero profile detection no build command is ever started.
C3_BuildOnlyAfterProfileOk ==
    [][ (Len(started') = Len(started) + 1 /\ IsBuild(started'[Len(started')]))
        => /\ Len(started) = 1 /\ IsProfileDetect(started[1])
           /\ returned = <<0>> ]_vars

C3_Witness ==
    /\ pc = "done" /\ argv = <<"lib", "grpc">> /\ "lib" \in dirs
    /\ started = <<ProfileDetectCmd>>
    /\ Len(returned) = 1 /\ returned[1] # 0

\* C4: with an existing directory and a transport in {grpc, mqtt}, once both
\* commands have returned zero the run goes on to its end without error_exit:
\* nothing on the error stream, and at the end status 0 with the success line
\* printed last.
C4_BothOkExits0 ==
    (Len(argv) = 2 /\ argv[1] \in dirs /\ argv[2] \in {"grpc", "mqtt"} /\ returned = <<0, 0>>)
    => /\ pc \in {"complete", "done"}
       /\ stderr = <<>>
       /\ pc = "done" => /\ status = 0
                         /\ stdout # <<>>
                         /\ stdout[Len(stdout)] = "Conan build process complete."

C4_Witness ==
    /\ pc = "done" /\ argv = <<"lib", "mqtt">> /\ "lib" \in dirs
    /\ returned = <<0, 0>> /\ status = 0

\* C5: every build command started has ten arguments: the directory as given
\* in third place, '--options=&:transport=' followed by the transport given
\* (one of grpc, mqtt) in sixth place, the conf argument that sets
\* CMAKE_EXPORT_COMPILE_COMMANDS to ON in last place, and the same seven other
\* arguments whatever the input.
C5_BuildCommandArguments ==
    \A i \in 1..Len(started) :
        IsBuild(started[i]) =>
            LET c == started[i] IN
            /\ Len(argv) = 2
            /\ Len(c) = 10
            /\ c[3] = argv[1]
            /\ argv[2] \in {"grpc", "mqtt"}
            /\ c[6] = "--options=&:transport=" \o argv[2]
            /\ c[6] # "--options=&:transport=" \o (IF argv[2] = "grpc" THEN "mqtt" ELSE "grpc")
            /\ c[10] = "--conf=tools.cmake.cmaketoolchain:extra_variables={'CMAKE_EXPORT_COMPILE_COMMANDS': 'ON'}"
            /\ <<c[1], c[2], c[4], c[5], c[7], c[8], c[9]>> =
                 <<"conan", "build", "--output-folder=build", "--build=missing",
                   "--settings=build_type=Debug", "--settings=compiler.cppstd=20",
                   "--settings:build=compiler.cppstd=20">>

C5_Witness ==
    /\ Len(started) = 2 /\ IsBuild(started[2])
    /\ argv = <<"lib", "mqtt">>
    /\ started[2][6] = "--options=&:transport=mqtt"

\* C6: once config_options has run, the options are {shared} on Windows and
\* {shared, fPIC} (fPIC defaulting to True) on every other os, shared defaults
\* to False in both cases; and the step of config_options leaves the settings,
\* the requirements and every option it keeps as they were.
C6_FPICAbsentOnWindowsOnly ==
    /\ [](rpc \in {"configured", "required"} =>
            /\ settings.os = "Windows" => DOMAIN options = {"shared"}
            /\ settings.os # "Windows" =>
                 /\ DOMAIN options = {"shared", "fPIC"}
                 /\ options["fPIC"] = [choices |-> {TRUE, FALSE}, default |-> TRUE]
            /\ options["shared"] = [choices |-> {TRUE, FALSE}, default |-> FALSE])
    /\ [][rpc = "declared" =>
            /\ settings' = settings
            /\ requires' = requires
            /\ DOMAIN options' \subseteq DOMAIN options
            /\ \A o \in DOMAIN options' : options'[o] = options[o]]_vars

C6_Witness ==
    /\ rpc = "configured" /\ settings.os = "Windows"
    /\ "fPIC" \notin DOMAIN options /\ "shared" \in DOMAIN options

\* C7: in build_for_tidy_with_conan the checks run in the order provided,
\* isdir, transport and stop at the first one violated: at most one line is
\* ever on the error stream, a run that ends in a rejection printed the
\* message of the first violated check, and evaluated no check after it.
C7_ValidationFailFast ==
    /\ Len(stderr) <= 1
    /\ \E n \in 0..3 : evaluated = SubSeq(<<"provided", "isdir", "transport">>, 1, n)
    /\ (Entered /\ pc = "done") =>
         /\ Falsy(argv[1]) =>
              /\ stderr = <<"Error: Library source directory not provided.">>
              /\ evaluated = <<"provided">>
              /\ status = 1
         /\ (~Falsy(argv[1]) /\ argv[1] \notin dirs) =>
              /\ stderr = <<"Error: Library source directory does not exist: " \o argv[1]>>
              /\ evaluated = <<"provided", "isdir">>
              /\ status = 1
         /\ (argv[1] \in dirs /\ argv[2] \notin {"grpc", "mqtt"}) =>
              /\ stderr = <<"Error: Transport should one of: 'grpc' or 'mqtt'.">>
              /\ evaluated = <<"provided", "isdir", "transport">>
              /\ status = 1

C7_Witness ==
    /\ pc = "done" /\ entry = "call" /\ argv = <<"", "http">>
    /\ stderr = <<"Error: Library source directory not provided.">>
    /\ evaluated = <<"provided">>

\* C8: a run starts at most two subprocesses, none twice: the first is the
\* profile detection, the second the build, started only once the first has
\* returned; and once a command has returned non-zero no other is started.
C8_AtMostOnceInOrderNoRetry ==
    /\ Len(started) <= 2
    /\ Len(returned) <= Len(started) /\ Len(started) <= Len(returned) + 1
    /\ Len(started) >= 1 => IsProfileDetect(started[1])
    /\ Len(started) = 2 => /\ IsBuild(started[2])
                           /\ started[2] # started[1]
                           /\ Len(returned) >= 1
    /\ \A i \in 1..Len(returned) : returned[i] # 0 => (Len(started) = i /\ pc = "done")

C8_Witness ==
    /\ pc = "done" /\ Len(started) = 2 /\ Len(returned) = 2 /\ returned[2] # 0

C10_SuccessOnlyWhenAllOk ==
    /\ Printed("Conan build process complete.", stdout) =>
         /\ Len(argv) = 2
         /\ ~Falsy(argv[1]) /\ argv[1] \in dirs
         /\ argv[2] \in {"grpc", "mqtt"}
         /\ Len(started) = 2 /\ IsProfileDetect(started[1]) /\ IsBuild(started[2])
         /\ returned = <<0, 0>>
         /\ pc = "done" /\ status = 0
    /\ (pc = "done" /\ status = 0) =>
         /\ stderr = <<>>
         /\ \A i \in 1..Len(returned) : returned[i] = 0

C10_Witness ==
    /\ pc = "done" /\ status = 0 /\ entry = "cli"
    /\ Printed("Conan build process complete.", stdout)
    /\ returned = <<0, 0>>

=============================================================================
